---------------------------- MODULE Spec2Model ----------------------------
(***************************************************************************)
(* Model of the chatlink-fusion client: the Chat page (the chat session    *)
(* controller, src/src/pages/Chat.tsx) driving the peer session service,   *)
(* and the visitor counter (src/src/components/VisitorCounter.tsx).        *)
(*                                                                         *)
(* The peer session service (@/services/webrtc) is not part of the source  *)
(* set; its behaviour is modelled from section 4.1 of the specification.   *)
(* Peer ids are opaque: the peer returned by the r-th connectToRandomUser  *)
(* call is written r, so that every returned peer id is fresh.             *)
(*                                                                         *)
(* Of the Chat state, isChatOpen and connectionStatus are display only     *)
(* (no handler reads them) and are left out. Each handler runs to its      *)
(* first await in one step; the part after an await is a step of its own.  *)
(***************************************************************************)
EXTENDS Integers, Sequences, FiniteSets

\* ------------------------------------------------------------------ bounds
\* number of connectToRandomUser calls explored
MaxRequests == 3
\* length of the message list explored
MaxMsgs == 1
\* clock steps that make up one retry delay
TicksPerDelay == 1
\* number of connectToRandomUser calls explored together with the media controls,
\* and with the ways of leaving the page
ControlsRequests == 2
\* browsing sessions explored by the visitor counter
MaxSessions == 3
\* mounts of the visitor counter explored in each session
MaxMounts == 2

\* -------------------------------------------------------- program constants
\* setTimeout(findNewPeer, 3000)
RetryDelay == 3000

null == 0

Tick == RetryDelay \div TicksPerDelay

VARIABLES
    \* --- Chat component (React state and lifecycle)
    page,             \* "rendered" (before the mount effect), "mounted", "unmounted"
    isAuthenticated,  \* useAuth().isAuthenticated
    localStream,      \* null or 1 (the local stream handle)
    remoteStream,     \* null or p: the remote stream handle of peer p
    currentPeerId,    \* null or a peer id
    isMuted,
    isVideoEnabled,
    messages,         \* sequence of [peer]: the peer each message was sent to or
                      \* received from (its id, sender, text and timestamp are left out)
    connecting,
    \* --- asynchronous work in flight
    mediaReq,         \* getLocalStream(): "none", "pending", "ok", "failed"
    pending,          \* connectToRandomUser() calls awaited: [rid, cpid, stale];
                      \* stale: skip was invoked after the call was issued
    timers,           \* setTimeout(findNewPeer, 3000): [rid, cpid, delay, elapsed]
    \* --- peer session service
    svcAudio,         \* the value last passed to toggleAudio (enabled at first)
    svcVideo,         \* the value last passed to toggleVideo (enabled at first)
    svcPeers,         \* peers with an open connection
    svcStreams,       \* peers whose remote stream is available
    svcClosing,       \* peers passed to disconnect whose closed event is still to come
    \* --- history
    requests,         \* connectToRandomUser calls issued so far
    failures,         \* connectToRandomUser calls that failed so far
    retries,          \* findNewPeer calls made by the retry timer so far
    lastOp,           \* the handler that acted last, the service calls and toast it made
    \* --- visitor counter
    localCount,       \* localStorage 'visitor-count': NoItem or Item(digit string)
    countedVisit,     \* per session: sessionStorage 'counted-visit'
    visitorCount,     \* per session: the component's visitorCount state
    mounts,           \* per session: how many times the counter has mounted
    priorVisits       \* sessions counted before the first state

chatVars == <<page, isAuthenticated, localStream, remoteStream, currentPeerId, isMuted,
              isVideoEnabled, messages, connecting, mediaReq, pending,
              timers, svcPeers, svcStreams, svcClosing, requests, failures, retries,
              svcAudio, svcVideo, lastOp>>
counterVars == <<localCount, countedVisit, visitorCount, mounts, priorVisits>>
vars == <<chatVars, counterVars>>

Sessions == 1..MaxSessions

\* ------------------------------------------------------------ service calls
Call(fn, peer, flag) == [fn |-> fn, peer |-> peer, flag |-> flag]

\* What the handler that acted last did: op names it, calls are the service
\* calls it made, toast the notification it raised. peer is the peer a response
\* returned; cur is the currentPeerId that skip and send found, and the one a
\* retry's closure captured; state is a connection-state event's state; waited
\* is how long a retry timer waited. flag is, for a response, whether skip was
\* invoked after its call was issued; for a connection-state event, whether it
\* was scoped to the current peer; for a toggle, the display flag it found.
\* A listener that ignores its event leaves no trace here.
Op(op, peer, cur, calls, toast) ==
    [op |-> op, peer |-> peer, cur |-> cur, state |-> "", flag |-> FALSE,
     waited |-> 0, calls |-> calls, toast |-> toast]

\* A state setter of a component that is no longer mounted changes nothing.
SetState(old, new) == IF page = "mounted" THEN new ELSE old

Min(a, b) == IF a < b THEN a ELSE b

ConnStates == {"connecting", "connected", "disconnected", "failed", "closed"}

\* state === 'disconnected' || state === 'failed' || state === 'closed'
IsDrop(state) == state \in {"disconnected", "failed", "closed"}

\* ---------------------------------------------------------- derived phases
\* The phases of section 4.2, read off the component's state.
SeekingPeer == currentPeerId = null /\ (pending # {} \/ timers # {})
Connecting  == currentPeerId # null /\ remoteStream = null /\ connecting
Connected   == currentPeerId # null /\ remoteStream = currentPeerId /\ ~connecting

\* ------------------------------------------------------------------- Init
ChatInit ==
    /\ page = "rendered"
    /\ isAuthenticated \in BOOLEAN
    /\ localStream = null
    /\ remoteStream = null
    /\ currentPeerId = null
    /\ isMuted = FALSE
    /\ isVideoEnabled = TRUE
    /\ messages = <<>>
    /\ connecting = FALSE
    /\ mediaReq = "none"
    /\ pending = {}
    /\ timers = {}
    /\ svcPeers = {}
    /\ svcStreams = {}
    /\ svcClosing = {}
    /\ requests = 0
    /\ failures = 0
    /\ retries = 0
    /\ svcAudio = TRUE
    /\ svcVideo = TRUE
    /\ lastOp = Op("none", null, null, <<>>, "")

\* ------------------------------------ peer session service (section 4.1)
PeerIds == 1..MaxRequests

\* disconnect(peerId): the connection goes, and reports closed once
DisconnectFromPeer(peerId) ==
    /\ svcPeers' = svcPeers \ {peerId}
    /\ svcStreams' = svcStreams \ {peerId}
    /\ svcClosing' = svcClosing \cup (svcPeers \cap {peerId})

\* teardown(): releases everything
Cleanup ==
    /\ svcPeers' = {}
    /\ svcStreams' = {}
    /\ svcClosing' = {}

\* requestPeer() resolving with a peer, whose remote stream the service may
\* (has) or may not hold already
ConnectedToUser(peerId, has) ==
    /\ svcPeers' = svcPeers \cup {peerId}
    /\ svcStreams' = IF has THEN svcStreams \cup {peerId} ELSE svcStreams
    /\ svcClosing' = svcClosing

\* getRemoteStream(peerId) after that: the stream handle or none
GetRemoteStream(peerId, has) == IF has THEN peerId ELSE null

\* The events the service emits are scoped to a peer it holds a connection to;
\* a connection passed to disconnect still reports closed.
EmitsMessage(peerId) == peerId \in svcPeers
EmitsStream(peerId) == peerId \in svcPeers \ svcStreams
EmitsState(peerId, state) ==
    \/ peerId \in svcPeers
    \/ peerId \in svcClosing /\ state = "closed"

\* A connection that reported disconnected, failed or closed is gone.
ConnectionDropped(peerId) ==
    /\ svcPeers' = svcPeers \ {peerId}
    /\ svcStreams' = svcStreams \ {peerId}
    /\ svcClosing' = svcClosing \ {peerId}

\* --------------------------------------------------- findNewPeer (97-129)
\* if (currentPeerId) webRTCService.disconnectFromPeer(currentPeerId);
\* ... await webRTCService.connectToRandomUser()
FindNewPeerCallsRequestFirst(cpid) ==
    <<Call("connectToRandomUser", null, FALSE)>>
        \o (IF cpid # null THEN <<Call("disconnectFromPeer", cpid, FALSE)>> ELSE <<>>)
FindNewPeerCalls(cpid) ==
    (IF cpid # null THEN <<Call("disconnectFromPeer", cpid, FALSE)>> ELSE <<>>)
        \o <<Call("connectToRandomUser", null, FALSE)>>

\* The synchronous part of findNewPeer, run by a closure that captured cpid as
\* its currentPeerId: disconnect, reset of the state, and the request issued.
\* A call made by skip leaves the calls still awaited behind it (stale).
FindNewPeerKeepsMessages(cpid, bySkip) ==
    /\ requests < MaxRequests
    /\ IF cpid # null THEN DisconnectFromPeer(cpid)
       ELSE UNCHANGED <<svcPeers, svcStreams, svcClosing>>
    /\ remoteStream' = SetState(remoteStream, null)
    /\ currentPeerId' = SetState(currentPeerId, null)
    /\ messages' = messages
    /\ connecting' = SetState(connecting, TRUE)
    /\ requests' = requests + 1
    /\ pending' = (IF bySkip THEN {[r EXCEPT !.stale = TRUE] : r \in pending}
                    ELSE pending)
                       \cup {[rid |-> requests + 1, cpid |-> cpid, stale |-> FALSE]}
FindNewPeer(cpid, bySkip) ==
    /\ requests < MaxRequests
    /\ IF cpid # null THEN DisconnectFromPeer(cpid)
       ELSE UNCHANGED <<svcPeers, svcStreams, svcClosing>>
    /\ remoteStream' = SetState(remoteStream, null)
    /\ currentPeerId' = SetState(currentPeerId, null)
    /\ messages' = SetState(messages, <<>>)
    /\ connecting' = SetState(connecting, TRUE)
    /\ requests' = requests + 1
    /\ pending' = (IF bySkip THEN {[r EXCEPT !.stale = TRUE] : r \in pending}
                    ELSE pending)
                       \cup {[rid |-> requests + 1, cpid |-> cpid, stale |-> FALSE]}

\* setTimeout(findNewPeer, 3000) by the call r that failed: the same closure.
ScheduleRetryNow(r) == [rid |-> r.rid, cpid |-> r.cpid, delay |-> 0, elapsed |-> 0]
ScheduleRetry(r) == [rid |-> r.rid, cpid |-> r.cpid, delay |-> RetryDelay, elapsed |-> 0]

\* The state of a component that unmounts is discarded (19-27 give what a
\* component starts with).
Unmounted ==
    /\ localStream' = null
    /\ remoteStream' = null
    /\ currentPeerId' = null
    /\ isMuted' = FALSE
    /\ isVideoEnabled' = TRUE
    /\ messages' = <<>>
    /\ connecting' = FALSE

\* --------------------------------------------------- mount effect (30-94)
\* The effect runs init() and subscribes the three listeners. For a user who is
\* not authenticated the render returned <Navigate> (186-188): the effect still
\* runs, and the redirect unmounts the page at once, running the effect's
\* cleanup (88-93).
Mount ==
    /\ page = "rendered"
    /\ mediaReq' = "pending"
    /\ page' = IF isAuthenticated THEN "mounted" ELSE "unmounted"
    /\ lastOp' = Op("mount", null, null,
                    <<Call("getLocalStream", null, FALSE)>>
                        \o (IF isAuthenticated THEN <<>>
                            ELSE <<Call("cleanup", null, FALSE)>>), "")
    /\ UNCHANGED <<isAuthenticated, localStream, remoteStream, currentPeerId, isMuted,
                   isVideoEnabled, messages, connecting, pending, timers, svcPeers,
                   svcStreams, svcClosing, requests, failures, retries, svcAudio,
                   svcVideo>>
    /\ UNCHANGED counterVars

\* init (31-36): getLocalStream resolved
MediaOk ==
    /\ mediaReq = "pending"
    /\ mediaReq' = "ok"
    /\ localStream' = SetState(localStream, 1)
    /\ FindNewPeer(null, FALSE)
    /\ lastOp' = Op("init:ok", null, null, FindNewPeerCalls(null), "")
    /\ UNCHANGED <<page, isAuthenticated, isMuted, isVideoEnabled, timers, failures,
                   retries, svcAudio, svcVideo>>
    /\ UNCHANGED counterVars

\* init (37-44): getLocalStream rejected
MediaFail ==
    /\ mediaReq = "pending"
    /\ mediaReq' = "failed"
    /\ lastOp' = Op("init:failed", null, null, <<>>, "Camera access error")
    /\ UNCHANGED <<page, isAuthenticated, localStream, remoteStream, currentPeerId,
                   isMuted, isVideoEnabled, messages, connecting, pending, timers,
                   svcPeers, svcStreams, svcClosing, requests, failures, retries,
                   svcAudio, svcVideo>>
    /\ UNCHANGED counterVars

\* findNewPeer (112-121): connectToRandomUser resolved with a peer, whose remote
\* stream the service may or may not have already
ResolveOk(r, has) ==
    /\ r \in pending
    /\ pending' = pending \ {r}
    /\ ConnectedToUser(r.rid, has)
    /\ currentPeerId' = SetState(currentPeerId, r.rid)
    /\ LET stream == GetRemoteStream(r.rid, has)
       IN IF stream # null
          THEN /\ remoteStream' = SetState(remoteStream, stream)
               /\ connecting' = SetState(connecting, FALSE)
          ELSE UNCHANGED <<remoteStream, connecting>>
    /\ lastOp' = [Op("resolve:ok", r.rid, null,
                       <<Call("getRemoteStream", r.rid, FALSE)>>, "")
                    EXCEPT !.flag = r.stale]
    /\ UNCHANGED <<page, isAuthenticated, localStream, isMuted, isVideoEnabled, messages,
                   mediaReq, timers, requests, failures, retries, svcAudio, svcVideo>>
    /\ UNCHANGED counterVars

\* findNewPeer (122-128): connectToRandomUser rejected
ResolveFailNoRetry(r) ==
    /\ r \in pending
    /\ pending' = pending \ {r}
    /\ timers' = timers
    /\ failures' = failures + 1
    /\ lastOp' = Op("resolve:failed", null, null, <<>>, "")
    /\ UNCHANGED <<page, isAuthenticated, localStream, remoteStream, currentPeerId,
                   isMuted, isVideoEnabled, messages, connecting, mediaReq, svcPeers,
                   svcStreams, svcClosing, requests, retries, svcAudio, svcVideo>>
    /\ UNCHANGED counterVars
ResolveFail(r) ==
    /\ r \in pending
    /\ pending' = pending \ {r}
    /\ timers' = timers \cup {ScheduleRetry(r)}
    /\ failures' = failures + 1
    /\ lastOp' = Op("resolve:failed", null, null, <<>>, "")
    /\ UNCHANGED <<page, isAuthenticated, localStream, remoteStream, currentPeerId,
                   isMuted, isVideoEnabled, messages, connecting, mediaReq, svcPeers,
                   svcStreams, svcClosing, requests, retries, svcAudio, svcVideo>>
    /\ UNCHANGED counterVars

\* time passes: every pending timer gets closer to firing
ClockTick ==
    /\ \E t \in timers : t.elapsed < t.delay
    /\ timers' = {[t EXCEPT !.elapsed = Min(t.delay, t.elapsed + Tick)] : t \in timers}
    /\ UNCHANGED <<page, isAuthenticated, localStream, remoteStream, currentPeerId,
                   isMuted, isVideoEnabled, messages, connecting, mediaReq, pending,
                   svcPeers, svcStreams, svcClosing, requests, failures, retries,
                   svcAudio, svcVideo, lastOp>>
    /\ UNCHANGED counterVars

\* the retry timer fires (127): findNewPeer runs again
TimerFire(t) ==
    /\ t \in timers
    /\ t.elapsed >= t.delay
    /\ timers' = timers \ {t}
    /\ FindNewPeer(t.cpid, FALSE)
    /\ retries' = retries + 1
    /\ lastOp' = [Op("retry", null, t.cpid, FindNewPeerCalls(t.cpid), "")
                    EXCEPT !.waited = t.elapsed]
    /\ UNCHANGED <<page, isAuthenticated, localStream, isMuted, isVideoEnabled, mediaReq,
                   failures, svcAudio, svcVideo>>
    /\ UNCHANGED counterVars

\* ---------------------------------------------------------- user actions
\* The controls are rendered by the mounted page; each handler is the one of the
\* latest render, so the currentPeerId it captured is the current state.

\* handleSkip (165-171)
Skip ==
    /\ page = "mounted"
    /\ FindNewPeer(currentPeerId, TRUE)
    /\ lastOp' = Op("skip", null, currentPeerId, FindNewPeerCalls(currentPeerId),
                    "Finding new partner")
    /\ UNCHANGED <<page, isAuthenticated, localStream, isMuted, isVideoEnabled, mediaReq,
                   timers, failures, retries, svcAudio, svcVideo>>
    /\ UNCHANGED counterVars

\* if (!currentPeerId) return;  (133)
SendGuardNone(cpid) == TRUE
SendGuard(cpid) == cpid # null

\* handleSendMessage (132-148)
SendMessage ==
    /\ page = "mounted"
    /\ currentPeerId = null \/ Len(messages) < MaxMsgs
    /\ IF SendGuard(currentPeerId)
       THEN /\ messages' = Append(messages, [peer |-> currentPeerId])
            /\ lastOp' = Op("send", null, currentPeerId,
                            <<Call("sendMessage", currentPeerId, FALSE)>>, "")
       ELSE /\ messages' = messages
            /\ lastOp' = Op("send", null, currentPeerId, <<>>, "")
    /\ UNCHANGED <<page, isAuthenticated, localStream, remoteStream, currentPeerId,
                   isMuted, isVideoEnabled, connecting, mediaReq, pending, timers,
                   svcPeers, svcStreams, svcClosing, requests, failures, retries,
                   svcAudio, svcVideo>>
    /\ UNCHANGED counterVars

\* webRTCService.toggleAudio(!newMuteState)  (154)
AudioArgMuted(newMuteState) == newMuteState
AudioArg(newMuteState) == ~newMuteState

\* webRTCService.toggleVideo(newVideoState)  (161)
VideoArgNegated(newVideoState) == ~newVideoState
VideoArg(newVideoState) == newVideoState

\* handleToggleMute (151-155)
ToggleMute ==
    /\ page = "mounted"
    /\ LET newMuteState == ~isMuted
           calls == <<Call("toggleAudio", null, AudioArg(newMuteState))>>
       IN /\ isMuted' = newMuteState
          /\ svcAudio' = AudioArg(newMuteState)
          /\ lastOp' = [Op("toggleMute", null, null, calls, "")
                          EXCEPT !.flag = isMuted]
    /\ UNCHANGED <<page, isAuthenticated, localStream, remoteStream, currentPeerId,
                   isVideoEnabled, messages, connecting, mediaReq, pending, timers,
                   svcPeers, svcStreams, svcClosing, requests, failures, retries,
                   svcVideo>>
    /\ UNCHANGED counterVars

\* handleToggleVideo (158-162)
ToggleVideo ==
    /\ page = "mounted"
    /\ LET newVideoState == ~isVideoEnabled
           calls == <<Call("toggleVideo", null, VideoArg(newVideoState))>>
       IN /\ isVideoEnabled' = newVideoState
          /\ svcVideo' = VideoArg(newVideoState)
          /\ lastOp' = [Op("toggleVideo", null, null, calls, "")
                          EXCEPT !.flag = isVideoEnabled]
    /\ UNCHANGED <<page, isAuthenticated, localStream, remoteStream, currentPeerId,
                   isMuted, messages, connecting, mediaReq, pending, timers, svcPeers,
                   svcStreams, svcClosing, requests, failures, retries, svcAudio>>
    /\ UNCHANGED counterVars

\* handleEndChat (174-177): cleanup, then navigate('/') unmounts the page, which
\* runs the effect's cleanup (88-93): cleanup again and the three unsubscribes
EndChat ==
    /\ page = "mounted"
    /\ page' = "unmounted"
    /\ Cleanup
    /\ lastOp' = Op("end", null, null,
                    <<Call("cleanup", null, FALSE), Call("cleanup", null, FALSE)>>, "")
    /\ Unmounted
    /\ UNCHANGED <<isAuthenticated, mediaReq, pending, timers, requests, failures,
                   retries, svcAudio, svcVideo>>
    /\ UNCHANGED counterVars

\* handleLogout (180-184): cleanup, logout() of the auth context ends the
\* authentication, and navigate('/') unmounts the page as for end chat
Logout ==
    /\ page = "mounted"
    /\ page' = "unmounted"
    /\ isAuthenticated' = FALSE
    /\ Cleanup
    /\ lastOp' = Op("logout", null, null,
                    <<Call("cleanup", null, FALSE), Call("cleanup", null, FALSE)>>, "")
    /\ Unmounted
    /\ UNCHANGED <<mediaReq, pending, timers, requests, failures, retries, svcAudio,
                   svcVideo>>
    /\ UNCHANGED counterVars

\* -------------------------------------------------------- service events
\* Delivered to the listeners while they are subscribed (the page is mounted),
\* each scoped to a peer the service holds a connection to.

\* onMessage listener (50-60)
OnMessage(p, type) ==
    /\ page = "mounted"
    /\ EmitsMessage(p)
    /\ IF type = "chat"
       THEN /\ Len(messages) < MaxMsgs
            /\ messages' = Append(messages, [peer |-> p])
            /\ lastOp' = Op("onMessage", null, null, <<>>, "")
       ELSE UNCHANGED <<messages, lastOp>>
    /\ UNCHANGED <<page, isAuthenticated, localStream, remoteStream, currentPeerId,
                   isMuted, isVideoEnabled, connecting, mediaReq, pending, timers,
                   svcPeers, svcStreams, svcClosing, requests, failures, retries,
                   svcAudio, svcVideo>>
    /\ UNCHANGED counterVars

\* onStream listener (62-71)
OnStream(p) ==
    /\ page = "mounted"
    /\ EmitsStream(p)
    /\ svcStreams' = svcStreams \cup {p}
    /\ remoteStream' = p
    /\ connecting' = FALSE
    /\ lastOp' = Op("onStream", null, null, <<>>, "Connected!")
    /\ UNCHANGED <<page, isAuthenticated, localStream, currentPeerId, isMuted,
                   isVideoEnabled, messages, mediaReq, pending, timers, svcPeers,
                   svcClosing, requests, failures, retries, svcAudio, svcVideo>>
    /\ UNCHANGED counterVars

\* onConnectionStateChange listener (73-86)
OnConnectionStateChange(p, state) ==
    /\ page = "mounted"
    /\ EmitsState(p, state)
    /\ IF IsDrop(state)
       THEN /\ remoteStream' = null
            /\ currentPeerId' = null
            /\ messages' = <<>>
            /\ ConnectionDropped(p)
            /\ lastOp' = [Op("onConnectionStateChange", null, null, <<>>,
                               "Disconnected")
                            EXCEPT !.state = state, !.flag = (p = currentPeerId)]
       ELSE UNCHANGED <<remoteStream, currentPeerId, messages, svcPeers, svcStreams,
                        svcClosing, lastOp>>
    /\ UNCHANGED <<page, isAuthenticated, localStream, isMuted, isVideoEnabled,
                   connecting, mediaReq, pending, timers, requests, failures, retries,
                   svcAudio, svcVideo>>
    /\ UNCHANGED counterVars

ChatNext ==
    \/ Mount
    \/ MediaOk
    \/ MediaFail
    \/ \E r \in pending, has \in BOOLEAN : ResolveOk(r, has)
    \/ \E r \in pending : ResolveFail(r)
    \/ ClockTick
    \/ \E t \in timers : TimerFire(t)
    \/ Skip
    \/ SendMessage
    \/ EndChat
    \/ \E p \in PeerIds, type \in {"chat", "other"} : OnMessage(p, type)
    \/ \E p \in PeerIds : OnStream(p)
    \/ \E p \in PeerIds, state \in ConnStates : OnConnectionStateChange(p, state)

\* ------------------------------------------- VisitorCounter.tsx (6-33)
\* Strings are sequences of decimal digit characters.
Digits == <<"0", "1", "2", "3", "4", "5", "6", "7", "8", "9">>

DigitValue(c) == (CHOOSE i \in 1..10 : Digits[i] = c) - 1

\* newCount.toString()  (17)
RECURSIVE ToString(_)
ToString(n) ==
    IF n < 10 THEN <<Digits[n + 1]>>
    ELSE ToString(n \div 10) \o <<Digits[(n % 10) + 1]>>

\* parseInt(storedCount, 10)  (12), of a non-empty string of digits
RECURSIVE ParseInt(_)
ParseInt(str) ==
    IF Len(str) = 1 THEN DigitValue(str[1])
    ELSE 10 * ParseInt(SubSeq(str, 1, Len(str) - 1)) + DigitValue(str[Len(str)])

\* What getItem returns: NoItem (null) for a key never set, else the string set.
NoItem == <<>>
Item(str) == <<str>>

\* storedCount ? parseInt(storedCount, 10) : 0  (12): null and "" are falsy
CurrentCount(storedCount) ==
    IF storedCount # NoItem /\ storedCount[1] # <<>> THEN ParseInt(storedCount[1])
    ELSE 0

\* if (!sessionStorage.getItem('counted-visit'))  (15)
NewVisitAlways(counted) == TRUE
NewVisit(counted) == ~counted

\* the mount effect (9-23) of the counter in browsing session s
MountCounter(s) ==
    /\ mounts[s] < MaxMounts
    /\ mounts' = [mounts EXCEPT ![s] = @ + 1]
    /\ LET currentCount == CurrentCount(localCount)
           newCount == currentCount + 1
       IN IF NewVisit(countedVisit[s])
          THEN /\ localCount' = Item(ToString(newCount))
               /\ countedVisit' = [countedVisit EXCEPT ![s] = TRUE]
               /\ visitorCount' = [visitorCount EXCEPT ![s] = newCount]
          ELSE /\ visitorCount' = [visitorCount EXCEPT ![s] = currentCount]
               /\ UNCHANGED <<localCount, countedVisit>>
    /\ UNCHANGED priorVisits
    /\ UNCHANGED chatVars

\* the counts the browser may hold from earlier sessions when these begin
PriorCounts == {0, 9, 99}

\* No session of these has been counted; localStorage holds what earlier ones left.
CounterInit ==
    /\ priorVisits \in PriorCounts
    /\ localCount = IF priorVisits = 0 THEN NoItem ELSE Item(ToString(priorVisits))
    /\ countedVisit = [s \in Sessions |-> FALSE]
    /\ visitorCount = [s \in Sessions |-> 0]
    /\ mounts = [s \in Sessions |-> 0]

CounterIdle == CounterInit /\ priorVisits = 0

VisitorNext == \E s \in Sessions : MountCounter(s)

VisitorInit == ChatInit /\ isAuthenticated /\ CounterInit

SpecVisitor == VisitorInit /\ [][VisitorNext]_vars

Init == ChatInit /\ CounterIdle

\* The session lifecycle. The media controls are left alone here: the toggles
\* read and write only isMuted, isVideoEnabled and the two values held by the
\* service, which no other handler touches.
Next == ChatNext

Spec == Init /\ [][Next]_vars

\* The session lifecycle together with the media controls, over fewer peer
\* requests.
ControlsNext ==
    \/ Mount
    \/ MediaOk /\ requests < ControlsRequests
    \/ MediaFail
    \/ \E r \in pending, has \in BOOLEAN : ResolveOk(r, has)
    \/ \E r \in pending : ResolveFail(r)
    \/ ClockTick
    \/ \E t \in timers : TimerFire(t) /\ requests < ControlsRequests
    \/ Skip /\ requests < ControlsRequests
    \/ SendMessage
    \/ ToggleMute
    \/ ToggleVideo
    \/ EndChat
    \/ \E p \in PeerIds, type \in {"chat", "other"} : OnMessage(p, type)
    \/ \E p \in PeerIds : OnStream(p)
    \/ \E p \in PeerIds, state \in ConnStates : OnConnectionStateChange(p, state)

SpecControls == Init /\ [][ControlsNext]_vars

\* The session lifecycle with a user who, once the page is open, neither skips
\* nor leaves: of the user actions only those that request no peer remain.
NoSkipNext ==
    \/ Mount
    \/ MediaOk
    \/ MediaFail
    \/ \E r \in pending, has \in BOOLEAN : ResolveOk(r, has)
    \/ \E r \in pending : ResolveFail(r)
    \/ ClockTick
    \/ \E t \in timers : TimerFire(t)
    \/ SendMessage
    \/ ToggleMute
    \/ ToggleVideo
    \/ \E p \in PeerIds, type \in {"chat", "other"} : OnMessage(p, type)
    \/ \E p \in PeerIds : OnStream(p)
    \/ \E p \in PeerIds, state \in ConnStates : OnConnectionStateChange(p, state)

SpecNoSkip == Init /\ [][NoSkipNext]_vars

\* The same user, with a service that eventually returns a peer (of the calls
\* explored the last one does not fail) and an event loop that runs what is due:
\* the clock advances, a timer that is due fires, an awaited call settles.
RetryNext ==
    \/ Mount
    \/ MediaOk
    \/ MediaFail
    \/ \E r \in pending, has \in BOOLEAN : ResolveOk(r, has)
    \/ \E r \in pending : ResolveFail(r) /\ r.rid < MaxRequests
    \/ ClockTick
    \/ \E t \in timers : TimerFire(t)
    \/ SendMessage
    \/ ToggleMute
    \/ ToggleVideo
    \/ \E p \in PeerIds, type \in {"chat", "other"} : OnMessage(p, type)
    \/ \E p \in PeerIds : OnStream(p)
    \/ \E p \in PeerIds, state \in ConnStates : OnConnectionStateChange(p, state)

Settles ==
    \E r \in pending :
        \/ \E has \in BOOLEAN : ResolveOk(r, has)
        \/ ResolveFail(r) /\ r.rid < MaxRequests

SpecRetry ==
    /\ Init
    /\ [][RetryNext]_vars
    /\ WF_vars(ClockTick)
    /\ WF_vars(\E t \in timers : TimerFire(t))
    /\ WF_vars(Settles)

\* The session lifecycle of a user who is signed in when the page opens, and who
\* may leave it by end chat or by logout, over fewer peer requests.
LeaveNext ==
    \/ Mount
    \/ MediaOk /\ requests < ControlsRequests
    \/ MediaFail
    \/ \E r \in pending, has \in BOOLEAN : ResolveOk(r, has)
    \/ \E r \in pending : ResolveFail(r)
    \/ ClockTick
    \/ \E t \in timers : TimerFire(t) /\ requests < ControlsRequests
    \/ Skip /\ requests < ControlsRequests
    \/ SendMessage
    \/ EndChat
    \/ Logout
    \/ \E p \in PeerIds, type \in {"chat", "other"} : OnMessage(p, type)
    \/ \E p \in PeerIds : OnStream(p)
    \/ \E p \in PeerIds, state \in ConnStates : OnConnectionStateChange(p, state)

SignedInInit == Init /\ isAuthenticated

SpecSignedIn == SignedInInit /\ [][LeaveNext]_vars

\* =================================================================== claims

\* C1: a peer id returned by a request that was issued before the most recent
\* skip is never adopted: when such a request resolves, currentPeerId is not set
\* to the peer it returns.
StaleResponseNotAdopted ==
    (lastOp.op = "resolve:ok" /\ lastOp.flag) => currentPeerId # lastOp.peer

\* C2: at most one peer returned by connectToRandomUser is alive (returned, and
\* neither passed to disconnectFromPeer nor torn down nor dropped) at a time.
AtMostOneSession == Cardinality(svcPeers) <= 1

\* C3: the message list is non-empty only while the session is connected: a
\* current peer is set and a remote stream is attached.
MessagesOnlyWhileConnected ==
    messages # <<>> => (currentPeerId # null /\ remoteStream # null)

\* C4: every message in the list was sent to or received from the current peer.
MessagesOfCurrentSession ==
    \A i \in 1..Len(messages) : messages[i].peer = currentPeerId

\* C5: sending a message while currentPeerId is null appends no message, makes no
\* service call and changes no other state of the controller.
SendWithoutPeerIsNoOp ==
    [][(lastOp'.op = "send" /\ lastOp'.cur = null /\ lastOp' # lastOp)
          => /\ lastOp'.calls = <<>>
             /\ messages' = messages
             /\ UNCHANGED <<page, localStream, remoteStream, currentPeerId, isMuted,
                            isVideoEnabled, connecting, mediaReq, pending, timers,
                            svcPeers, svcStreams, svcClosing, svcAudio, svcVideo,
                            requests>>]_vars

\* C5 witness: send was invoked with no active peer.
SendWithoutPeerAttempted ==
    /\ page = "mounted"
    /\ lastOp.op = "send"
    /\ lastOp.cur = null
    /\ currentPeerId = null

SessionsVisited == {s \in Sessions : mounts[s] > 0}

\* C6: the persisted visitor count is the number of distinct browsing sessions in
\* which the counter has mounted (on top of what earlier sessions left), however
\* many times it mounted in each, and a session is marked counted from its first
\* mount on.
VisitorCountIsSessions ==
    /\ CurrentCount(localCount) = priorVisits + Cardinality(SessionsVisited)
    /\ \A s \in Sessions : countedVisit[s] <=> s \in SessionsVisited
    /\ \A s \in SessionsVisited :
           visitorCount[s] \in (priorVisits + 1)..CurrentCount(localCount)

\* C6 witness: first visit ever, a reload in that session, and a second session:
\* the count is "2".
VisitorCountedTwoSessions ==
    /\ priorVisits = 0
    /\ \E s, t \in Sessions : s # t /\ mounts[s] = 2 /\ mounts[t] = 1
    /\ Cardinality(SessionsVisited) = 2
    /\ localCount = Item(<<"2">>)

\* C7: with no skip and no leaving, n failures of connectToRandomUser followed by a
\* success take exactly n retries (n + 1 calls), each made by a timer that waited
\* the retry delay, and leave the controller Connecting or Connected with the
\* returned peer as the current peer.
RetriesUntilPeer ==
    page = "mounted" =>
        /\ retries = failures - Cardinality(timers)
        /\ requests = (IF mediaReq = "ok" THEN 1 ELSE 0) + retries
        /\ lastOp.op = "retry" => lastOp.waited >= RetryDelay
        /\ lastOp.op = "resolve:ok" =>
               /\ requests = failures + 1
               /\ retries = failures
               /\ currentPeerId = lastOp.peer
               /\ Connecting \/ Connected

\* C7 witness: two failures, then the third call returned the current peer.
PeerAfterTwoRetries ==
    /\ page = "mounted"
    /\ lastOp.op = "resolve:ok"
    /\ failures = 2
    /\ retries = 2
    /\ requests = 3
    /\ currentPeerId = 3

\* C8: toggling mute twice (video twice) returns the flag to its original value
\* and makes exactly two service calls, the second carrying the original enabled
\* value.
TogglePairs ==
    [][/\ (lastOp.op = "toggleMute" /\ lastOp'.op = "toggleMute" /\ lastOp' # lastOp)
          => /\ isMuted' = lastOp.flag
             /\ Len(lastOp.calls) = 1
             /\ lastOp'.calls = <<Call("toggleAudio", null, ~lastOp.flag)>>
       /\ (lastOp.op = "toggleVideo" /\ lastOp'.op = "toggleVideo" /\ lastOp' # lastOp)
          => /\ isVideoEnabled' = lastOp.flag
             /\ Len(lastOp.calls) = 1
             /\ lastOp'.calls = <<Call("toggleVideo", null, lastOp.flag)>>]_vars

\* C8 witness: mute was toggled on and off again while a peer was connected.
ToggledMuteTwice ==
    /\ lastOp.op = "toggleMute"
    /\ lastOp.flag
    /\ ~isMuted
    /\ svcAudio
    /\ Connected

\* C9: once acquiring local media has failed, it is not retried and no later step
\* issues a peer request or sets a current peer.
MediaFailureIsTerminal ==
    [][mediaReq = "failed"
          => /\ mediaReq' = "failed"
             /\ requests' = requests
             /\ currentPeerId' # null => currentPeerId' = currentPeerId]_vars

\* C10: a connection-state event of disconnected, failed or closed clears the
\* remote stream, the current peer id and the messages, notifies the user and
\* issues no peer request; and after such an event for the current peer no peer
\* request is issued until skip is invoked (or init starts the first cycle): the
\* step that follows the event, unless it is one of these, issues none.
NoRequestAfterDrop ==
    [][/\ (lastOp'.op = "onConnectionStateChange" /\ lastOp' # lastOp)
          => /\ remoteStream' = null
             /\ currentPeerId' = null
             /\ messages' = <<>>
             /\ lastOp'.toast = "Disconnected"
             /\ lastOp'.calls = <<>>
             /\ UNCHANGED <<requests, pending, timers>>
       /\ (lastOp.op = "onConnectionStateChange" /\ lastOp.flag
             /\ lastOp'.op \notin {"skip", "init:ok"})
          => requests' = requests]_vars

\* C11: every step that enters SeekingPeer (init, skip or retry issuing a peer
\* request) on the open page leaves the message list empty, the remote stream and
\* the current peer id none and the connecting indicator on, with the request
\* still awaited.
SeekingPeerStartsClean ==
    [][(requests' # requests /\ page' = "mounted")
          => /\ lastOp'.op \in {"init:ok", "skip", "retry"}
             /\ messages' = <<>>
             /\ remoteStream' = null
             /\ currentPeerId' = null
             /\ connecting'
             /\ \E r \in pending' : r.rid = requests'
             /\ lastOp'.calls[Len(lastOp'.calls)].fn = "connectToRandomUser"]_vars

\* C11 witness: skip left a session with a peer and is seeking the next one.
SkippedIntoSeekingPeer ==
    /\ page = "mounted"
    /\ lastOp.op = "skip"
    /\ lastOp.cur # null
    /\ SeekingPeer
    /\ messages = <<>>
    /\ remoteStream = null
    /\ connecting

\* C12: skip invoked with a current peer calls disconnectFromPeer for that peer
\* and no other, then connectToRandomUser, and the service closes that peer's
\* connection only; skip invoked with no current peer calls connectToRandomUser
\* alone and closes nothing.
SkipDisconnectsCurrentPeer ==
    [][(lastOp'.op = "skip" /\ requests' # requests)
          => /\ lastOp'.cur = currentPeerId
             /\ lastOp'.toast = "Finding new partner"
             /\ IF currentPeerId # null
                THEN /\ lastOp'.calls = <<Call("disconnectFromPeer", currentPeerId, FALSE),
                                         Call("connectToRandomUser", null, FALSE)>>
                     /\ svcPeers' = svcPeers \ {currentPeerId}
                ELSE /\ lastOp'.calls = <<Call("connectToRandomUser", null, FALSE)>>
                     /\ svcPeers' = svcPeers
                     /\ svcClosing' = svcClosing]_vars

\* C12 witness: skip tore down the connected peer, whose connection is closing.
SkippedConnectedPeer ==
    /\ page = "mounted"
    /\ lastOp.op = "skip"
    /\ lastOp.cur # null
    /\ lastOp.cur \in svcClosing
    /\ lastOp.cur \notin svcPeers
    /\ Len(lastOp.calls) = 2

\* C13: when connectToRandomUser resolves on the open page, the returned peer is
\* the current peer and the controller is Connected (remote stream set,
\* connecting off) if the service held the peer's remote stream already, and
\* Connecting (remote stream none, connecting on) otherwise; from Connecting it
\* becomes Connected only by the stream event of the current peer, which always
\* makes it Connected, and it leaves Connecting otherwise only when the peer is
\* dropped, a new request is issued or the page is left.
PeerAcquiredPhase ==
    [][/\ (pending' # pending /\ requests' = requests /\ failures' = failures
              /\ page' = "mounted")
          => /\ lastOp'.op = "resolve:ok"
             /\ currentPeerId' = lastOp'.peer
             /\ IF lastOp'.peer \in svcStreams'
                THEN remoteStream' = lastOp'.peer /\ ~connecting'
                ELSE remoteStream' = null /\ connecting'
       /\ (Connecting /\ Connected')
          => /\ currentPeerId' = currentPeerId
             /\ svcStreams' = svcStreams \cup {currentPeerId}
             /\ lastOp'.op = "onStream"
       /\ (Connecting /\ svcStreams' # svcStreams /\ pending' = pending
              /\ svcPeers' = svcPeers)
          => Connected'
       /\ (Connecting /\ ~Connecting' /\ ~Connected')
          => \/ currentPeerId' = null
             \/ requests' # requests
             \/ page' # "mounted"]_vars

\* C14: every failure of connectToRandomUser is eventually followed by another
\* connectToRandomUser call, however many failed before it; and with a service
\* that eventually returns a peer, a controller that is seeking a peer on the
\* open page eventually is Connecting or Connected.
RetryRecovers ==
    /\ \A n \in 1..MaxRequests : (failures = n) ~> (requests > n)
    /\ (page = "mounted" /\ SeekingPeer) ~> (Connecting \/ Connected)

\* C14 witness: every call but the last explored failed, each was retried, and
\* the last one's peer is connected.
RecoveredFromEveryFailure ==
    /\ page = "mounted"
    /\ failures = MaxRequests - 1
    /\ retries = failures
    /\ timers = {}
    /\ Connected
    /\ lastOp.op = "onStream"

\* C15: each toggle of mute (of video) flips isMuted (isVideoEnabled), passes the
\* matching value to the service in one call and changes nothing else of the
\* controller; so on the open page the audio-enabled value last passed to the
\* service is ~isMuted and the video-enabled value last passed is isVideoEnabled.
ToggleDelegates ==
    [][/\ (isMuted' # isMuted /\ page' = "mounted")
          => /\ lastOp'.op = "toggleMute"
             /\ lastOp'.calls = <<Call("toggleAudio", null, ~isMuted')>>
             /\ svcAudio' = ~isMuted'
             /\ UNCHANGED <<isVideoEnabled, svcVideo, currentPeerId, remoteStream,
                            messages, localStream, connecting, pending, timers,
                            requests, svcPeers, svcStreams, svcClosing>>
       /\ (isVideoEnabled' # isVideoEnabled /\ page' = "mounted")
          => /\ lastOp'.op = "toggleVideo"
             /\ lastOp'.calls = <<Call("toggleVideo", null, isVideoEnabled')>>
             /\ svcVideo' = isVideoEnabled'
             /\ UNCHANGED <<isMuted, svcAudio, currentPeerId, remoteStream,
                            messages, localStream, connecting, pending, timers,
                            requests, svcPeers, svcStreams, svcClosing>>
       /\ page' = "mounted"
          => /\ svcAudio' = ~isMuted'
             /\ svcVideo' = isVideoEnabled']_vars

\* C15 witness: muted, then video turned off, while a peer was connected with a
\* message in the list.
MutedThenVideoOff ==
    /\ page = "mounted"
    /\ lastOp.op = "toggleVideo"
    /\ isMuted
    /\ ~isVideoEnabled
    /\ ~svcAudio
    /\ ~svcVideo
    /\ Connected
    /\ messages # <<>>

\* C16: a disconnected, failed or closed event scoped to a peer other than the
\* current peer leaves the current peer id, its remote stream and its messages
\* unchanged.
OtherPeerDropIgnored ==
    [][(lastOp'.op = "onConnectionStateChange" /\ lastOp' # lastOp /\ ~lastOp'.flag
          /\ currentPeerId # null)
          => UNCHANGED <<currentPeerId, remoteStream, messages>>]_vars

\* C17: a remote stream held by the controller is the stream of the current
\* peer: remoteStream is set only while currentPeerId is set, and to that peer's
\* stream.
RemoteStreamOfCurrentPeer == remoteStream # null => remoteStream = currentPeerId

\* C18: once end chat or logout has torn the session down and the page is left,
\* no step issues a connectToRandomUser call and none sets a current peer,
\* whatever timer, peer request or media acquisition was pending at the time.
NoRequestAfterTeardown ==
    [][page = "unmounted"
          => /\ requests' = requests
             /\ currentPeerId' = null]_vars

\* C19: for a user who is not authenticated the page starts no session: no local
\* media is acquired and no connectToRandomUser call is issued.
NoSessionUnauthenticated ==
    ~isAuthenticated => (mediaReq = "none" /\ requests = 0)

=============================================================================
